---- MODULE Spec2Model ----
(***************************************************************************)
(* A model of the mongodb-dashboard server: the paginated document fetch   *)
(* of src/src/routes/api.js and the connection manager (MongoDBService).   *)
(***************************************************************************)
EXTENDS Integers, Sequences, FiniteSets, TLC

\* ------------------------------------------------------------------------
\* Bounds of the model
\* ------------------------------------------------------------------------

\* Number of distinct values of each _id type (values 1..MaxId, one digit).
MaxId == 2

\* Largest number of documents in the collection.
MaxDocs == 3

\* Largest number of client handles (new MongoClient) created in one run.
MaxHandles == 3

\* Number of requests that may be in flight at once.
MaxReqs == 2

\* Depth to which converted values are nested in arrays and documents.
MaxDepth == 2

\* Number of documents created through POST.
MaxInserts == 1

\* Length of the samples of strings and of the samples of mixed values.
MaxStrings == 11
MaxMixed == 3

\* Levels of documents nested inside a sampled document.
MaxNest == 1

\* Documents of the collection the browser page shows, and the number of
\* loadDocuments calls of one run.
BrowserDocs == 101
MaxLoads == 4

\* ------------------------------------------------------------------------
\* Program constants
\* ------------------------------------------------------------------------

\* const { cursor, limit = 50, filter } = req.query;  parseInt(limit) || 50
DefaultLimit == 50

\* Math.min(..., 100)
MaxLimit == 100

\* The largest number of unique strings of an enum (schema.js).
EnumMax == 10

\* let url = `/api/${dbName}/${collectionName}?limit=50`
ClientLimit == 50

\* ------------------------------------------------------------------------
\* Values: strings and _id values
\* ------------------------------------------------------------------------

\* "No string": an absent query parameter, a null nextCursor.
NoString == [k |-> "none", n |-> 0]

\* The strings the model uses, each standing for one concrete text:
\*   hex n : the 24-character hex string "00000000000000000000000n"
\*   dec n : the decimal text of n ("1", "2", ...)
\*   txt n : the n-th of "a", "b", "c", ... (neither decimal nor 24-hex)
Hex(n) == [k |-> "hex", n |-> n]
Dec(n) == [k |-> "dec", n |-> n]
Txt(n) == [k |-> "txt", n |-> n]
Strings == {Hex(n) : n \in 1..MaxId} \cup {Dec(n) : n \in 1..MaxId}
              \cup {Txt(n) : n \in 1..MaxId}

KindRank(k) == CASE k = "hex" -> 1 [] k = "dec" -> 2 [] k = "txt" -> 3

\* Binary (code point) comparison of two of these texts: '0' < '1'..'9' < 'a'..
StrLess(s, t) ==
    \/ KindRank(s.k) < KindRank(t.k)
    \/ s.k = t.k /\ s.n < t.n

\* _id values: a number, a string, or an ObjectId (whose hex text is Hex(v)).
\* (t: the type; k, n: the string of a string _id, the value n otherwise)
NumId(n) == [t |-> "num", k |-> "num", n |-> n]
StrId(s) == [t |-> "str", k |-> s.k, n |-> s.n]
OidId(n) == [t |-> "oid", k |-> "oid", n |-> n]
NoId == [t |-> "none", k |-> "none", n |-> 0]
StrOf(id) == [k |-> id.k, n |-> id.n]
Ids == {NumId(n) : n \in 1..MaxId} \cup {StrId(s) : s \in Strings}
          \cup {OidId(n) : n \in 1..MaxId}

\* BSON comparison order of the types: numbers < strings < ObjectId.
TypeRank(t) == CASE t = "num" -> 1 [] t = "str" -> 2 [] t = "oid" -> 3

\* Comparison inside one type.
ValLess(a, b) == IF a.t = "str" THEN StrLess(StrOf(a), StrOf(b)) ELSE a.n < b.n

\* The sort order of the store over _id values of all types.
IdLess(a, b) ==
    \/ TypeRank(a.t) < TypeRank(b.t)
    \/ a.t = b.t /\ ValLess(a, b)

\* The store's $gt / $lt: comparison operators match within one type only.
MatchGt(id, bound) == id.t = bound.t /\ ValLess(bound, id)
MatchLt(id, bound) == id.t = bound.t /\ ValLess(id, bound)

\* _id.toString(): the decimal text of a number, a string itself, the hex
\* text of an ObjectId.
IdToString(id) ==
    CASE id.t = "num" -> Dec(id.n)
      [] id.t = "str" -> StrOf(id)
      [] id.t = "oid" -> Hex(id.n)

\* new ObjectId(text) accepts a 24-character hex text and throws otherwise.
ObjectIdAccepts(s) == s.k = "hex"

\* ------------------------------------------------------------------------
\* Documents and the store
\* ------------------------------------------------------------------------

\* Field texts are sequences of characters.
Names == {<<"A", "b">>, <<"b">>}
Times == {1, 2}

\* A document: its _id, its createdAt time and one text field.
Docs(ids, times, names) == [id : ids, createdAt : times, name : names]

\* The collections of at most k documents of D with pairwise distinct _id.
RECURSIVE CollsUpTo(_, _)
CollsUpTo(D, k) ==
    IF k = 0 THEN {{}}
    ELSE LET S == CollsUpTo(D, k - 1)
         IN  S \cup UNION {{c \cup {d} : d \in {x \in D : \A e \in c : e.id # x.id}}
                             : c \in S}

\* The collections of at most MaxDocs documents with pairwise distinct _id.
Colls(ids, times, names) == CollsUpTo(Docs(ids, times, names), MaxDocs)

\* The documents of S in descending _id order (a sort the code does not use).
RECURSIVE SortDesc(_)
SortDesc(S) ==
    IF S = {} THEN <<>>
    ELSE LET m == CHOOSE d \in S : \A e \in S : e = d \/ IdLess(e.id, d.id)
         IN  <<m>> \o SortDesc(S \ {m})

\* sort({ _id: 1 }): the documents of S in ascending _id order.
RECURSIVE SortAsc(_)
SortAsc(S) ==
    IF S = {} THEN <<>>
    ELSE LET m == CHOOSE d \in S : \A e \in S : e = d \/ IdLess(d.id, e.id)
         IN  <<m>> \o SortAsc(S \ {m})

\* cursor.limit(n): n = 0 is no limit, a negative n is a limit of -n.
Abs(n) == IF n < 0 THEN -n ELSE n
Limit(seq, n) ==
    IF n = 0 \/ Len(seq) <= Abs(n) THEN seq ELSE SubSeq(seq, 1, Abs(n))

\* ------------------------------------------------------------------------
\* GET /:db/:collection : the paginated fetch
\* ------------------------------------------------------------------------

\* The limit query parameter: absent, a text that is no number, or an integer.
LimitAbsent == [k |-> "absent"]
LimitNaN == [k |-> "nan"]
LimitInt(n) == [k |-> "int", v |-> n]

\* Math.min(parseInt(limit) || 50, 100): NaN and 0 are falsy.
PageLimit(lim) ==
    LET n == IF lim.k = "int" /\ lim.v # 0 THEN lim.v ELSE DefaultLimit
    IN  IF n < MaxLimit THEN n ELSE MaxLimit

\* The filter query parameter: absent, a JSON text {"name": v}, a JSON text
\* {"_id": {"$lt": v}} (v a JSON number or string), or a text that is no JSON.
FilterNone == [k |-> "none", name |-> <<>>, id |-> NoId]
FilterName(v) == [k |-> "name", name |-> v, id |-> NoId]
FilterIdLt(v) == [k |-> "idlt", name |-> <<>>, id |-> v]
FilterBad == [k |-> "bad", name |-> <<>>, id |-> NoId]

\* A query: a condition on name, a condition on _id, and whether it carries
\* the empty disjunction { $or: [] }, which the store rejects.
\* query = JSON.parse(filter), or { $or: [] } when that throws.
ParseFilter(flt) ==
    [name    |-> [on |-> flt.k = "name", v |-> flt.name],
     id      |-> IF flt.k = "idlt" THEN [op |-> "lt", v |-> flt.id]
                 ELSE [op |-> "none", v |-> NoId],
     emptyOr |-> flt.k = "bad"]

\* try { new ObjectId(cursor) } catch { cursor }
CursorBound(cur) ==
    IF ObjectIdAccepts(cur) THEN OidId(cur.n) ELSE StrId(cur)

\* if (cursor) query._id = { $gt: ... }: the assignment replaces the _id key.
BuildQuery(flt, cur) ==
    LET q == ParseFilter(flt)
    IN  IF cur = NoString THEN q
        ELSE [q EXCEPT !.id = [op |-> "gt", v |-> CursorBound(cur)]]

\* Whether the store's find(query) returns document d.
Matches(d, q) ==
    /\ q.name.on => d.name = q.name.v
    /\ \/ q.id.op = "none"
       \/ q.id.op = "gt" /\ MatchGt(d.id, q.id.v)
       \/ q.id.op = "lt" /\ MatchLt(d.id, q.id.v)

\* The route handler's response for one request.
Respond(c, flt, cur, lim) ==
    LET query     == BuildQuery(flt, cur)
        pageLimit == PageLimit(lim)
        docs      == Limit(SortAsc({d \in c : Matches(d, query)}), pageLimit + 1)
        hasMore   == Len(docs) > pageLimit
        page      == IF hasMore /\ Len(docs) > 0
                     THEN SubSeq(docs, 1, Len(docs) - 1) ELSE docs
    IN  IF query.emptyOr
        THEN [status |-> 500, documents |-> <<>>, nextCursor |-> NoString,
              hasMore |-> FALSE, totalCount |-> 0, pageLimit |-> pageLimit]
        ELSE [status |-> 200, documents |-> page,
              nextCursor |-> IF hasMore /\ Len(page) > 0
                             THEN IdToString(page[Len(page)].id) ELSE NoString,
              hasMore |-> hasMore, totalCount |-> Cardinality(c),
              pageLimit |-> pageLimit]

\* ------------------------------------------------------------------------
\* State
\* ------------------------------------------------------------------------

VARIABLES
    coll,      \* the documents of the collection
    filter,    \* the filter parameter of the pagination sequence
    search,    \* the search parameter of the pagination sequence
    limit,     \* the limit parameter of the pagination sequence
    cursor,    \* the cursor parameter of the next request (NoString: none)
    resp,      \* the last response (NoResponse before the first request)
    got,       \* the documents returned so far, in the order returned
    pages,     \* the number of requests answered
    phase      \* "start", "more" (hasMore was true) or "done"

pvars == <<coll, filter, search, limit, cursor, resp, got, pages, phase>>

\* The connection manager (MongoDBService) and the requests that use it.
VARIABLES
    client,            \* this.client: a handle, or 0 for null
    connectionString,  \* this.connectionString, or NoConn for null
    handles,           \* each handle created: its string and its state
    nh,                \* the number of handles created so far
    req,               \* each request slot: its route and where it stands
    overlap            \* whether a request may arrive while another is in flight

cvars == <<client, connectionString, handles, nh, req, overlap>>

\* The value conversion of src/src/utils/bson.js.
VARIABLES
    conv   \* the conversion under way: its input, the values computed, its step

\* The collection the data routes work on and the last response of one.
VARIABLES
    store,  \* the documents: each an _id and the rest of the document
    dres    \* the last response of a data route

dvars == <<store, dres>>

\* The schema inference of src/src/utils/schema.js.
VARIABLES
    sample,  \* the sampled documents: the value of the field f in each
    schema   \* what inferSchema reported for f (NoSchema before the call)

svars == <<sample, schema>>

\* The schema of whole documents and the New Document dialog of the client.
VARIABLES
    fsample,   \* the sampled documents
    inferred,  \* what inferSchema returned for them (NoFields before the call)
    modal      \* the dialog: whether it is open and what it shows

tvars == <<fsample, inferred, modal>>

\* The browser page of src/public/js/app.js.
VARIABLES
    currentCursor,      \* the cursor of the last response handled
    allDocuments,       \* the documents accumulated
    currentSearchTerm,  \* the search term typed
    arrayFilters,       \* the array filter applied ("none": {})
    searchTimeout,      \* whether the debounce timer is running
    loadMoreBtn,        \* whether the Load more button is displayed
    fetches,            \* the requests sent and not yet answered, oldest first
    issuer,             \* the search term and filter currentCursor was issued for
    loads               \* the number of loadDocuments calls so far

bvars == <<currentCursor, allDocuments, currentSearchTerm, arrayFilters,
           searchTimeout, loadMoreBtn, fetches, issuer, loads>>

yvars == <<tvars, bvars>>

xvars == <<conv, dvars, svars, yvars>>

vars == <<pvars, cvars, xvars>>

\* The limit parameters tried: absent, not a number, negative, zero, small,
\* larger than 100.
LimitInputs ==
    {LimitAbsent, LimitNaN, LimitInt(-2), LimitInt(-1), LimitInt(0),
     LimitInt(1), LimitInt(2), LimitInt(MaxLimit + 1)}

\* The search terms tried: none (the empty text), or the text "a".
SearchInputs == {<<>>, <<"a">>}

\* The filters tried.
FilterInputs ==
    {FilterNone, FilterBad} \cup {FilterName(n) : n \in Names}
        \cup {FilterIdLt(NumId(n)) : n \in 1..MaxId}
        \cup {FilterIdLt(StrId(Txt(n))) : n \in 1..MaxId}

NoResponse ==
    [status |-> 0, documents |-> <<>>, nextCursor |-> NoString,
     hasMore |-> FALSE, totalCount |-> 0, pageLimit |-> 0]

InitSession ==
    /\ cursor = NoString
    /\ resp = NoResponse
    /\ got = <<>>
    /\ pages = 0
    /\ phase = "start"

\* Pagination over _id values of every type and every createdAt order, with
\* no filter and no search term.
InitPage ==
    /\ coll \in Colls(Ids \ {StrId(Dec(n)) : n \in 1..MaxId}, Times, {<<"b">>})
    /\ filter = FilterNone
    /\ search = <<>>
    /\ limit \in {LimitAbsent, LimitInt(1), LimitInt(2)}
    /\ InitSession

\* Every filter, search term and limit.
InitQuery ==
    /\ coll \in Colls(Ids, {1}, Names)
    /\ filter \in FilterInputs
    /\ search \in SearchInputs
    /\ limit \in LimitInputs
    /\ InitSession

\* One request of the pagination sequence and its response: the first without
\* cursor, each later one with the nextCursor of the response before it, for
\* as long as a response says hasMore and carries a cursor to follow. The
\* handler reads cursor, limit and filter from the request and nothing else.
Fetch ==
    /\ phase \in {"start", "more"}
    /\ LET r == Respond(coll, filter, cursor, limit)
       IN  /\ resp' = r
           /\ got' = got \o r.documents
           /\ cursor' = r.nextCursor
           /\ phase' = IF r.status = 200 /\ r.hasMore /\ r.nextCursor # NoString
                       THEN "more" ELSE "done"
    /\ pages' = pages + 1
    /\ UNCHANGED <<coll, filter, search, limit, cvars, xvars>>

\* The caller starts the pagination sequence again from the first page (the
\* client's Refresh, or its Load more when the response carried no cursor).
Restart ==
    /\ phase = "done"
    /\ cursor' = NoString
    /\ resp' = NoResponse
    /\ got' = <<>>
    /\ pages' = 0
    /\ phase' = "start"
    /\ UNCHANGED <<coll, filter, search, limit, cvars, xvars>>

NextPage == Fetch \/ Restart

\* ------------------------------------------------------------------------
\* The connection manager: MongoDBService and the routes that drive it
\* ------------------------------------------------------------------------

NoConn == "null"

\* Connection strings: two well-formed ones and a malformed one, with which
\* new MongoClient throws.
GoodStrings == {"A", "B"}
ConnStrings == GoodStrings \cup {"M"}

Handles == 1..MaxHandles
Reqs == 1..MaxReqs

\* A handle is "new" once created, "open" once its connect() has succeeded,
\* "failed" once its connect() has failed, "closed" once close() has
\* completed. A close() of a handle that is still connecting either makes its
\* connect() fail or leaves it to succeed; raced records that this happened.
NoHandle == [str |-> NoConn, st |-> "none", raced |-> FALSE]

\* The handles created and not yet closed.
OpenHandles == {h \in Handles : handles[h].st \in {"new", "open", "failed"}}

\* A request slot. h: the handle the pending close(), connect() or ping() was
\* called on; ret: the handle connect() returned; atClient, atString: the
\* manager's fields when the request began; created, closed: the handles this
\* request created and closed; res: the response.
IdleReq ==
    [op |-> "none", arg |-> NoConn, pc |-> "idle", h |-> 0, ret |-> 0,
     atClient |-> 0, atString |-> NoConn, created |-> {}, closed |-> {},
     res |-> "none"]

\* A slot is free before its first request and after each response.
Free(p) == req[p].pc \in {"idle", "done"}

\* A request whose next step is the continuation of an await on a promise
\* that is already resolved (a microtask): it runs before any new request
\* is handled and before any other input/output completes.
Pending(q) == req[q].pc \in {"c_create", "d_respond", "s_respond"}

\* A request may arrive in a free slot when no continuation is pending; where
\* requests do not overlap, only when no other request is in flight.
MayArrive(p) ==
    /\ Free(p)
    /\ \A q \in Reqs : ~Pending(q)
    /\ overlap \/ \A q \in Reqs : Free(q)

\* The result of p's awaited call (connect, ping, listDatabases) may arrive
\* when no continuation is pending.
MayComplete(p) == \A q \in Reqs : ~Pending(q)

\* The close() that p awaits may complete when no continuation is pending,
\* or together with another request's close() of the same handle.
MayCompleteClose(p) ==
    \A q \in Reqs : Pending(q) => q # p /\ req[p].h \in req[q].closed

Begin(op, arg) ==
    [IdleReq EXCEPT !.op = op, !.arg = arg,
                    !.atClient = client, !.atString = connectionString]

\* The slots when a request arrives in slot p as record r: the records of
\* the requests already answered are dropped.
Arrived(p, r) ==
    [q \in Reqs |-> IF q = p THEN r ELSE IF Free(q) THEN IdleReq ELSE req[q]]

Closed(h) ==
    [handles EXCEPT ![h].st = "closed",
                    ![h].raced = @ \/ handles[h].st = "new"]

\* (a comparison turned around: the handle is reused for another string)
ReusesOther(cs) == client # 0 /\ connectionString # cs

\* connect(): if (this.client && this.connectionString === connectionString)
Reuses(cs) == client # 0 /\ connectionString = cs

\* (the old handle is never disconnected)
ConnectKeepsOld == FALSE

\* connect(): if (this.client) await this.disconnect()
ConnectMustDisconnect == client # 0

\* (close() is called whether or not a handle is stored)
DisconnectAlways == TRUE

\* disconnect(): if (this.client)
DisconnectHasClient == client # 0

\* this.client = new MongoClient(connectionString, ...); this.client.connect()
\* is called and awaited. new MongoClient throws on a malformed string and
\* the route answers 400.
Create(p, r, cs) ==
    IF cs \notin GoodStrings
    THEN /\ req' = Arrived(p, [r EXCEPT !.pc = "done", !.res = "400"])
         /\ UNCHANGED <<client, handles, nh>>
    ELSE /\ nh < MaxHandles
         /\ nh' = nh + 1
         /\ handles' = [handles EXCEPT ![nh + 1] =
                                           [str |-> cs, st |-> "new", raced |-> FALSE]]
         /\ client' = nh + 1
         /\ req' = Arrived(p, [r EXCEPT !.pc = "c_connecting", !.h = nh + 1,
                                        !.created = @ \cup {nh + 1}])

\* POST /connect up to the first await of connect(): an empty string is
\* refused; the stored handle is returned when it was stored with the same
\* string; otherwise the stored handle's close() is called (disconnect), or,
\* with no stored handle, the new handle is created at once.
ConnectStart(p, cs) ==
    /\ MayArrive(p)
    /\ LET r == Begin("connect", cs)
       IN  IF cs = ""
           THEN /\ req' = Arrived(p, [r EXCEPT !.pc = "done", !.res = "400"])
                /\ UNCHANGED <<client, connectionString, handles, nh>>
           ELSE IF Reuses(cs)
           THEN /\ req' = Arrived(p, [r EXCEPT !.pc = "c_list", !.ret = client])
                /\ UNCHANGED <<client, connectionString, handles, nh>>
           ELSE IF ConnectMustDisconnect
           THEN /\ req' = Arrived(p, [r EXCEPT !.pc = "c_closing", !.h = client])
                /\ UNCHANGED <<client, connectionString, handles, nh>>
           ELSE /\ Create(p, r, cs)
                /\ UNCHANGED connectionString
    /\ UNCHANGED <<overlap, pvars, xvars>>

\* disconnect() inside connect(), after await this.client.close():
\* this.client = null; this.connectionString = null.
ConnectClosed(p) ==
    /\ req[p].pc = "c_closing"
    /\ MayCompleteClose(p)
    /\ handles' = Closed(req[p].h)
    /\ client' = 0
    /\ connectionString' = NoConn
    /\ req' = [req EXCEPT ![p].pc = "c_create", ![p].closed = @ \cup {req[p].h}]
    /\ UNCHANGED <<nh, overlap, pvars, xvars>>

\* connect() after await this.disconnect(): the new handle is created.
ConnectCreate(p) ==
    /\ req[p].pc = "c_create"
    /\ Create(p, req[p], req[p].arg)
    /\ UNCHANGED <<connectionString, overlap, pvars, xvars>>

\* await this.client.connect() has succeeded: the handle is connected (also
\* when close() was called on it while it was connecting and did not stop
\* it), this.connectionString is set and this.client, as it is now, is
\* returned.
ConnectSucceeds(p) ==
    /\ req[p].pc = "c_connecting"
    /\ MayComplete(p)
    /\ handles' = [handles EXCEPT ![req[p].h].st = "open"]
    /\ connectionString' = req[p].arg
    /\ req' = [req EXCEPT ![p].pc = "c_list", ![p].ret = client]
    /\ UNCHANGED <<client, nh, overlap, pvars, xvars>>

\* await this.client.connect() has failed: connect() throws, the route
\* answers 400.
ConnectFails(p) ==
    /\ req[p].pc = "c_connecting"
    /\ MayComplete(p)
    /\ handles' = IF handles[req[p].h].st = "new"
                  THEN [handles EXCEPT ![req[p].h].st = "failed"] ELSE handles
    /\ req' = [req EXCEPT ![p].pc = "done", ![p].res = "400"]
    /\ UNCHANGED <<client, connectionString, nh, overlap, pvars, xvars>>

\* POST /connect after connect() has returned: listDatabases() on the
\* returned handle succeeds (200) or fails (400).
ConnectRespond(p) ==
    /\ req[p].pc = "c_list"
    /\ MayComplete(p)
    /\ \E ok \in BOOLEAN :
           req' = [req EXCEPT ![p].pc = "done",
                              ![p].res = IF ok THEN "200" ELSE "400"]
    /\ UNCHANGED <<client, connectionString, handles, nh, overlap, pvars, xvars>>

\* disconnect(): if (this.client) await this.client.close(); with no handle
\* it returns at once.
DisconnectStart(p) ==
    /\ MayArrive(p)
    /\ LET r == Begin("disconnect", NoConn)
       IN  req' = Arrived(p, IF DisconnectHasClient
                             THEN [r EXCEPT !.pc = "d_closing", !.h = client]
                             ELSE [r EXCEPT !.pc = "d_respond"])
    /\ UNCHANGED <<client, connectionString, handles, nh, overlap, pvars, xvars>>

\* disconnect() after await this.client.close().
DisconnectClosed(p) ==
    /\ req[p].pc = "d_closing"
    /\ MayCompleteClose(p)
    /\ handles' = Closed(req[p].h)
    /\ client' = 0
    /\ connectionString' = NoConn
    /\ req' = [req EXCEPT ![p].pc = "d_respond", ![p].closed = @ \cup {req[p].h}]
    /\ UNCHANGED <<nh, overlap, pvars, xvars>>

\* POST /disconnect after await mongoService.disconnect(): { success: true }.
DisconnectRespond(p) ==
    /\ req[p].pc = "d_respond"
    /\ req' = [req EXCEPT ![p].pc = "done", ![p].res = "200"]
    /\ UNCHANGED <<client, connectionString, handles, nh, overlap, pvars, xvars>>

\* GET /status and GET / up to the first await: with a stored handle its
\* ping() is called; with none the answer is connected: false at once.
StatusStart(p, route) ==
    /\ MayArrive(p)
    /\ LET r == Begin(route, NoConn)
       IN  req' = Arrived(p, IF client # 0
                             THEN [r EXCEPT !.pc = "s_pinging", !.h = client]
                             ELSE [r EXCEPT !.pc = "done", !.res = "disconnected"])
    /\ UNCHANGED <<client, connectionString, handles, nh, overlap, pvars, xvars>>

\* The ping has succeeded: connected: true (GET / redirects to /databases).
PingSucceeds(p) ==
    /\ req[p].pc = "s_pinging"
    /\ MayComplete(p)
    /\ req' = [req EXCEPT ![p].pc = "done", ![p].res = "connected"]
    /\ UNCHANGED <<client, connectionString, handles, nh, overlap, pvars, xvars>>

\* (the failed ping is answered without disconnect())
PingFailsNoDisconnect(p) ==
    /\ req[p].pc = "s_pinging"
    /\ MayComplete(p)
    /\ req' = [req EXCEPT ![p].pc = "s_respond"]
    /\ UNCHANGED <<client, connectionString, handles, nh, overlap, pvars, xvars>>

\* The ping has failed: mongoService.disconnect() is called, which calls
\* close() on the handle stored now, or returns at once with none stored.
PingFails(p) ==
    /\ req[p].pc = "s_pinging"
    /\ MayComplete(p)
    /\ req' = [req EXCEPT ![p] =
                  IF DisconnectHasClient
                  THEN [@ EXCEPT !.pc = "s_closing", !.h = client]
                  ELSE [@ EXCEPT !.pc = "s_respond"]]
    /\ UNCHANGED <<client, connectionString, handles, nh, overlap, pvars, xvars>>

\* disconnect() after await this.client.close(), called from the status route.
StatusClosed(p) ==
    /\ req[p].pc = "s_closing"
    /\ MayCompleteClose(p)
    /\ handles' = Closed(req[p].h)
    /\ client' = 0
    /\ connectionString' = NoConn
    /\ req' = [req EXCEPT ![p].pc = "s_respond", ![p].closed = @ \cup {req[p].h}]
    /\ UNCHANGED <<nh, overlap, pvars, xvars>>

\* After await mongoService.disconnect(): connected: false (GET / renders the
\* connect page).
StatusRespond(p) ==
    /\ req[p].pc = "s_respond"
    /\ req' = [req EXCEPT ![p].pc = "done", ![p].res = "disconnected"]
    /\ UNCHANGED <<client, connectionString, handles, nh, overlap, pvars, xvars>>

\* The steps that continue a request in flight.
Continue(p) ==
    \/ ConnectClosed(p)
    \/ ConnectCreate(p)
    \/ ConnectSucceeds(p)
    \/ ConnectFails(p)
    \/ ConnectRespond(p)
    \/ DisconnectClosed(p)
    \/ DisconnectRespond(p)
    \/ PingSucceeds(p)
    \/ PingFails(p)
    \/ StatusClosed(p)
    \/ StatusRespond(p)

\* A request arrives.
Arrive(p) ==
    \/ \E cs \in ConnStrings \cup {""} : ConnectStart(p, cs)
    \/ DisconnectStart(p)
    \/ \E route \in {"status", "home"} : StatusStart(p, route)

NextConn == \E p \in Reqs : Arrive(p) \/ Continue(p)

\* ------------------------------------------------------------------------
\* src/src/utils/bson.js : serializeDocument and parseDocument
\* ------------------------------------------------------------------------

\* A value, native or on the transport: its type t, a text s, two numbers n
\* and m, and for arrays and documents the elements c (with the keys of a
\* document in keys).
\*   ObjectId: n is its 12-byte value.     Date: n is its time in ms,
\*   Long: n is its value.                   or -1 for an Invalid Date.
\*   Decimal128: s is its digits.          Binary: s is its data in base64,
\*   Timestamp: n is high, m is low.          n its subtype.
Val(t, s, n, m, keys, c) ==
    [t |-> t, s |-> s, n |-> n, m |-> m, keys |-> keys, c |-> c]

Null == Val("null", "", 0, 0, <<>>, <<>>)
Str(s) == Val("string", s, 0, 0, <<>>, <<>>)
Num(n) == Val("number", "", n, 0, <<>>, <<>>)
Arr(c) == Val("array", "", 0, 0, <<>>, c)
Obj(keys, c) == Val("object", "", 0, 0, keys, c)
ObjectIdOf(n) == Val("ObjectId", "", n, 0, <<>>, <<>>)
DateOf(n) == Val("Date", "", n, 0, <<>>, <<>>)
BinaryOf(s, n) == Val("Binary", s, n, 0, <<>>, <<>>)
Decimal128Of(s) == Val("Decimal128", s, 0, 0, <<>>, <<>>)
LongOf(n) == Val("Long", "", n, 0, <<>>, <<>>)
TimestampOf(n, m) == Val("Timestamp", "", n, m, <<>>, <<>>)

\* The outcome of a call that throws.
Throw == Val("throw", "", 0, 0, <<>>, <<>>)

\* The ObjectId values of the model and their 24 hexadecimal characters, in
\* lower case as toString() writes them and in upper case.
OidValues == {1, 2}
HexLow == <<"00000000000000000000000a", "00000000000000000000000b">>
HexUp == <<"00000000000000000000000A", "00000000000000000000000B">>

\* The Date values of the model (ms since the epoch) and their texts: as
\* toISOString() writes them, and the same instants without milliseconds.
DateValues == {0, 1000}
IsoText(n) == IF n = 0 THEN "1970-01-01T00:00:00.000Z"
                       ELSE "1970-01-01T00:00:01.000Z"
IsoShort(n) == IF n = 0 THEN "1970-01-01T00:00:00Z" ELSE "1970-01-01T00:00:01Z"
InvalidDate == DateOf(-1)

LongValues == {0, 7}
LongText(n) == IF n = 0 THEN "0" ELSE "7"
DecimalTexts == {"0", "1.50"}

\* (upper case where toString() writes lower case)
ObjectIdToUpper(n) == HexUp[n]

\* ObjectId.prototype.toString(): 24 hexadecimal characters in lower case.
ObjectIdToString(n) == HexLow[n]

\* new ObjectId(text): hexadecimal characters of either case; any other text
\* throws.
NewObjectId(p) ==
    IF p.t = "string" /\ \E n \in OidValues : p.s \in {HexLow[n], HexUp[n]}
    THEN ObjectIdOf(CHOOSE n \in OidValues : p.s \in {HexLow[n], HexUp[n]})
    ELSE Throw

\* new Date(text): never throws; a text that is no date gives an Invalid Date.
NewDate(p) ==
    IF p.t = "string" /\ \E n \in DateValues : p.s \in {IsoText(n), IsoShort(n)}
    THEN DateOf(CHOOSE n \in DateValues : p.s \in {IsoText(n), IsoShort(n)})
    ELSE InvalidDate

\* Date.prototype.toISOString(): throws a RangeError on an Invalid Date.
ToISOString(n) == IF n \in DateValues THEN Str(IsoText(n)) ELSE Throw

\* Decimal128.fromString(text): throws on a text that is no decimal number.
Decimal128FromString(p) ==
    IF p.t = "string" /\ p.s \in DecimalTexts THEN Decimal128Of(p.s) ELSE Throw

\* Long.fromString(text), for the texts of LongValues.
LongFromString(p) ==
    IF p.t = "string" /\ \E n \in LongValues : p.s = LongText(n)
    THEN LongOf(CHOOSE n \in LongValues : p.s = LongText(n))
    ELSE Throw

\* Number.prototype.toString(16) of a Binary subtype.
SubTypeHex(n) == IF n = 0 THEN "0" ELSE "80"

\* The elements of a converted array or document; a throw inside propagates.
Rebuild(v, c) ==
    IF \E i \in 1..Len(c) : c[i].t = "throw" THEN Throw
    ELSE [v EXCEPT !.c = c]

\* Binary: { $binary: doc.toString("base64"), $type: doc.sub_type.toString(16) }
SerializeBinary(v) ==
    Obj(<<"$binary", "$type">>, <<Str(v.s), Str(SubTypeHex(v.n))>>)

\* serializeDocument(doc)
RECURSIVE serializeDocument(_)
serializeDocument(doc) ==
    CASE doc.t = "null" -> doc
      [] doc.t = "array" ->
             Rebuild(doc, [i \in 1..Len(doc.c) |-> serializeDocument(doc.c[i])])
      [] doc.t = "ObjectId" -> Obj(<<"$oid">>, <<Str(ObjectIdToString(doc.n))>>)
      [] doc.t = "Date" ->
             Rebuild(Obj(<<"$date">>, <<>>), <<ToISOString(doc.n)>>)
      [] doc.t = "Binary" -> SerializeBinary(doc)
      [] doc.t = "Decimal128" -> Obj(<<"$numberDecimal">>, <<Str(doc.s)>>)
      [] doc.t = "Long" -> Obj(<<"$numberLong">>, <<Str(LongText(doc.n))>>)
      [] doc.t = "Timestamp" ->
             Obj(<<"$timestamp">>, <<Obj(<<"t", "i">>, <<Num(doc.n), Num(doc.m)>>)>>)
      [] doc.t = "object" ->
             Rebuild(doc, [i \in 1..Len(doc.c) |-> serializeDocument(doc.c[i])])
      [] OTHER -> doc

\* doc[key], or Null (for undefined) when the document has no such key.
Field(doc, key) ==
    IF \E i \in 1..Len(doc.keys) : doc.keys[i] = key
    THEN doc.c[CHOOSE i \in 1..Len(doc.keys) : doc.keys[i] = key]
    ELSE Null

\* Whether if (value) takes the branch.
Truthy(v) ==
    CASE v.t \in {"null", "throw"} -> FALSE
      [] v.t = "string" -> v.s # ""
      [] v.t = "number" -> v.n # 0
      [] OTHER -> TRUE

\* parseDocument(doc)
RECURSIVE parseDocument(_)
parseDocument(doc) ==
    CASE doc.t = "null" -> doc
      [] doc.t = "array" ->
             Rebuild(doc, [i \in 1..Len(doc.c) |-> parseDocument(doc.c[i])])
      [] doc.t = "object" ->
             IF Truthy(Field(doc, "$oid")) THEN NewObjectId(Field(doc, "$oid"))
             ELSE IF Truthy(Field(doc, "$date")) THEN NewDate(Field(doc, "$date"))
             ELSE IF Truthy(Field(doc, "$numberDecimal"))
                  THEN Decimal128FromString(Field(doc, "$numberDecimal"))
             ELSE IF Truthy(Field(doc, "$numberLong"))
                  THEN LongFromString(Field(doc, "$numberLong"))
             ELSE Rebuild(doc, [i \in 1..Len(doc.c) |-> parseDocument(doc.c[i])])
      [] OTHER -> doc

\* The values converted. Native values of the six extended types and plain
\* ones; tagged transport values with their text as serializeDocument writes
\* it (canonical), with another well-formed text, and malformed.
NativeLeaves ==
    {ObjectIdOf(n) : n \in OidValues} \cup {DateOf(n) : n \in DateValues}
        \cup {BinaryOf("AQI=", n) : n \in {0, 128}}
        \cup {Decimal128Of(d) : d \in DecimalTexts}
        \cup {LongOf(n) : n \in LongValues}
        \cup {TimestampOf(1, m) : m \in {0, 2}}
        \cup {Str("x"), Num(5), Null}

Tagged(tag, text) == Obj(<<tag>>, <<Str(text)>>)

CanonicalLeaves ==
    {Tagged("$oid", HexLow[n]) : n \in OidValues}
        \cup {Tagged("$date", IsoText(n)) : n \in DateValues}
        \cup {Tagged("$numberDecimal", d) : d \in DecimalTexts}
        \cup {Tagged("$numberLong", LongText(n)) : n \in LongValues}
        \cup {Tagged("$binary", "AQI="), SerializeBinary(BinaryOf("AQI=", 128))}
        \cup {Obj(<<"$timestamp">>, <<Obj(<<"t", "i">>, <<Num(1), Num(2)>>)>>)}
        \cup {Str("x"), Num(5), Null}

OtherFormLeaves ==
    {Tagged("$oid", HexUp[n]) : n \in OidValues}
        \cup {Tagged("$date", IsoShort(n)) : n \in DateValues}

MalformedLeaves ==
    {Tagged("$oid", "xyz"), Tagged("$date", "yesterday"),
     Tagged("$numberDecimal", "abc")}

\* The values of S, alone and nested up to k levels deep inside arrays and
\* documents.
RECURSIVE Nested(_, _)
Nested(S, k) ==
    IF k = 0 THEN S
    ELSE LET N == Nested(S, k - 1)
         IN  N \cup {Arr(<<v>>) : v \in N} \cup {Obj(<<"a">>, <<v>>) : v \in N}
               \cup {Obj(<<"a", "b">>, <<Num(5), v>>) : v \in S}

Unset == Val("unset", "", 0, 0, <<>>, <<>>)

\* No conversion under way.
IdleConv ==
    [dir |-> "none", form |-> "none", input |-> Unset, mid |-> Unset,
     out |-> Unset, pc |-> "done"]

StartConv(dir, form, v) ==
    [dir |-> dir, form |-> form, input |-> v, mid |-> Unset, out |-> Unset,
     pc |-> "start"]

\* A native value to serialize and parse back ("sp"), or a transport value to
\* parse and serialize back ("ps").
ConvInputs ==
    {StartConv("sp", "native", v) : v \in Nested(NativeLeaves, MaxDepth)}
        \cup {StartConv("ps", "canonical", v) : v \in Nested(CanonicalLeaves, MaxDepth)}
        \cup {StartConv("ps", "other", v) : v \in Nested(OtherFormLeaves, MaxDepth)}
        \cup {StartConv("ps", "malformed", v) : v \in Nested(MalformedLeaves, MaxDepth)}

\* The value the next call is applied to; a throw ends the round trip.
ConvArg == IF conv.pc = "start" THEN conv.input ELSE conv.mid

ConvStep(f) ==
    IF conv.pc = "start"
    THEN conv' = [conv EXCEPT !.mid = f, !.pc = IF f = Throw THEN "done" ELSE "half",
                              !.out = IF f = Throw THEN Throw ELSE Unset]
    ELSE conv' = [conv EXCEPT !.out = f, !.pc = "done"]

\* A call of serializeDocument.
ConvSerialize ==
    /\ \/ conv.dir = "sp" /\ conv.pc = "start"
       \/ conv.dir = "ps" /\ conv.pc = "half"
    /\ ConvStep(serializeDocument(ConvArg))
    /\ UNCHANGED <<pvars, cvars, dvars, svars, yvars>>

\* A call of parseDocument.
ConvParse ==
    /\ \/ conv.dir = "ps" /\ conv.pc = "start"
       \/ conv.dir = "sp" /\ conv.pc = "half"
    /\ ConvStep(parseDocument(ConvArg))
    /\ UNCHANGED <<pvars, cvars, dvars, svars, yvars>>

NextBson == ConvSerialize \/ ConvParse

\* ------------------------------------------------------------------------
\* The data routes of src/src/routes/api.js
\* ------------------------------------------------------------------------

\* A response of a data route: its status and error message, whether the
\* handler accessed the store, the number of documents that the query built
\* from the id parameter matched when the request arrived, the body of the
\* request, and the store as it was when the request arrived. For a GET, also
\* the path requested, the id parameter and the document returned.
Answer(route, status, error, accessed, hit, body) ==
    [route |-> route, status |-> status, error |-> error,
     accessed |-> accessed, hit |-> hit, body |-> body, before |-> store,
     path |-> <<>>, id |-> NoString, found |-> {}]

NoAnswer ==
    [route |-> "none", status |-> 0, error |-> "", accessed |-> FALSE,
     hit |-> 0, body |-> Unset, before |-> {},
     path |-> <<>>, id |-> NoString, found |-> {}]

\* (the check left out)
ConnectedAlways == FALSE

\* const client = mongoService.getClient(); if (!client)
NotConnected == client = 0

\* return res.status(400).json({ error: "Not connected" })
NotConnectedAnswer(route, body) ==
    Answer(route, 400, "Not connected", FALSE, 0, body)

\* catch (err) { res.status(500).json({ error: err.message }) }
ErrorAnswer(route, hit, body) ==
    Answer(route, 500, "err.message", FALSE, hit, body)

\* The id parameters tried: 24 hexadecimal characters, digits, letters.
IdParams == {Hex(1), Hex(2), Dec(1), Txt(1)}

\* try { query = { _id: new ObjectId(id) } } catch (e) { query = { _id: id } }
IdQuery(id) == IF ObjectIdAccepts(id) THEN OidId(id.n) ELSE StrId(id)

\* The documents of the store that { _id: ... } matches.
Hits(id) == {d \in store : d.id = IdQuery(id)}

\* (an upsert: the replacement is inserted when nothing matches)
ReplaceOneUpsert(id, updates) ==
    (store \ {d \in store : d.id = IdQuery(id)})
        \cup {[id |-> IdQuery(id), body |-> updates]}

\* collection.replaceOne(query, updates): the store afterwards.
ReplaceOne(id, updates) ==
    IF Hits(id) = {} THEN store
    ELSE (store \ Hits(id)) \cup {[id |-> IdQuery(id), body |-> updates]}

\* A document as the driver writes it: an Invalid Date is written as the time 0.
Encoded(doc) ==
    [doc EXCEPT !.c = [i \in 1..Len(doc.c) |->
                          IF doc.c[i] = InvalidDate THEN DateOf(0) ELSE doc.c[i]]]

\* The request bodies tried: one field that is a plain text, a well-formed
\* tagged value or a malformed tagged value.
GoodBodies ==
    {Obj(<<"a">>, <<v>>) :
        v \in {Str("y"), Tagged("$oid", HexLow[1]), Tagged("$date", IsoText(0))}}
BadBodies == {Obj(<<"a">>, <<v>>) : v \in MalformedLeaves}
Bodies == GoodBodies \cup BadBodies

\* The _id insertOne gives a document that has none: a new ObjectId.
FreshIds == {OidId(n) : n \in 2..(1 + MaxInserts)}
UsedIds == {d.id : d \in store}
FreshId == CHOOSE i \in FreshIds \ UsedIds :
               \A j \in FreshIds \ UsedIds : j.n >= i.n

\* A route that reads: GET /databases, GET /:db/collections,
\* GET /:db/:collection (whose response is Respond) and
\* GET /:db/:collection/schema.
ReadAnswer(route) ==
    IF NotConnected THEN NotConnectedAnswer(route, Unset)
    ELSE Answer(route, 200, "", TRUE, 0, Unset)

ReadRoute(route) == dres' = ReadAnswer(route) /\ UNCHANGED store

ListDatabases == ReadRoute("databases") /\ UNCHANGED <<pvars, cvars, conv, svars, yvars>>
ListCollections == ReadRoute("collections") /\ UNCHANGED <<pvars, cvars, conv, svars, yvars>>
FetchRoute == ReadRoute("fetch") /\ UNCHANGED <<pvars, cvars, conv, svars, yvars>>
GetSchema == ReadRoute("schema") /\ UNCHANGED <<pvars, cvars, conv, svars, yvars>>

\* GET /:db/:collection/:id: collection.findOne(query)
GetAnswer(id) ==
    IF NotConnected THEN NotConnectedAnswer("get", Unset)
    ELSE IF Hits(id) = {}
    THEN [Answer("get", 404, "Document not found", TRUE, 0, Unset)
             EXCEPT !.id = id]
    ELSE [Answer("get", 200, "", TRUE, 1, Unset)
             EXCEPT !.id = id, !.found = Hits(id)]

GetDocument(id) ==
    /\ dres' = GetAnswer(id)
    /\ UNCHANGED <<store, pvars, cvars, conv, svars, yvars>>

\* The GET routes of the data API in the order router.get registers them.
GetRoutes ==
    <<[path |-> <<"databases">>, route |-> "databases"],
      [path |-> <<":db", "collections">>, route |-> "collections"],
      [path |-> <<":db", ":collection">>, route |-> "fetch"],
      [path |-> <<":db", ":collection", "schema">>, route |-> "schema"],
      [path |-> <<":db", ":collection", ":id">>, route |-> "get"]>>

\* The text of a path segment of the model: a word, or a value of Strings.
Word(w) == [k |-> w, n |-> 0]

\* Whether a route path matches the segments of a request: a parameter
\* matches any segment, any other part only itself.
RouteMatches(pattern, segs) ==
    /\ Len(pattern) = Len(segs)
    /\ \A i \in 1..Len(segs) :
           pattern[i] \in {":db", ":collection", ":id"} \/ segs[i] = Word(pattern[i])

\* The router calls the first route registered that matches.
Dispatch(segs) ==
    IF \E i \in 1..Len(GetRoutes) : RouteMatches(GetRoutes[i].path, segs)
    THEN GetRoutes[CHOOSE i \in 1..Len(GetRoutes) :
                      /\ RouteMatches(GetRoutes[i].path, segs)
                      /\ \A j \in 1..(i - 1) :
                             ~RouteMatches(GetRoutes[j].path, segs)].route
    ELSE "none"

\* The paths requested: /databases, /{db}/{c} and /{db}/{c}/{id} with names
\* and ids that are words of the route paths and others.
Segments == {Word("collections"), Word("schema"), Txt(1), Hex(1)}
GetPaths ==
    {<<Word("databases")>>} \cup {<<Txt(1), c>> : c \in Segments}
        \cup {<<Txt(1), Txt(2), id>> : id \in Segments}

\* A GET request to the data API: the handler of the route dispatched runs.
Get(segs) ==
    /\ Dispatch(segs) # "none"
    /\ dres' = [(IF Dispatch(segs) = "get" THEN GetAnswer(segs[3])
                 ELSE ReadAnswer(Dispatch(segs))) EXCEPT !.path = segs]
    /\ UNCHANGED <<store, pvars, cvars, conv, svars, yvars>>

\* POST /:db/:collection
CreateDocument(body) ==
    /\ IF NotConnected
       THEN dres' = NotConnectedAnswer("create", body) /\ UNCHANGED store
       ELSE LET doc == parseDocument(body)
            IN  IF doc = Throw
                THEN dres' = ErrorAnswer("create", 0, body) /\ UNCHANGED store
                ELSE /\ FreshIds \ UsedIds # {}
                     /\ store' = store \cup
                                   {[id |-> FreshId, body |-> Encoded(doc)]}
                     /\ dres' = Answer("create", 200, "", TRUE, 0, body)
    /\ UNCHANGED <<pvars, cvars, conv, svars, yvars>>

\* PUT /:db/:collection/:id
UpdateDocument(id, body) ==
    /\ IF NotConnected
       THEN dres' = NotConnectedAnswer("update", body) /\ UNCHANGED store
       ELSE LET updates == parseDocument(body)
            IN  IF updates = Throw
                THEN /\ dres' = ErrorAnswer("update", Cardinality(Hits(id)), body)
                     /\ UNCHANGED store
                ELSE /\ store' = ReplaceOne(id, Encoded(updates))
                     /\ dres' = IF Hits(id) = {}
                                THEN Answer("update", 404, "Document not found",
                                            TRUE, 0, body)
                                ELSE Answer("update", 200, "", TRUE, 1, body)
    /\ UNCHANGED <<pvars, cvars, conv, svars, yvars>>

\* DELETE /:db/:collection/:id
DeleteDocument(id) ==
    /\ IF NotConnected
       THEN dres' = NotConnectedAnswer("delete", Unset) /\ UNCHANGED store
       ELSE IF Hits(id) = {}
       THEN /\ dres' = Answer("delete", 404, "Document not found",
                              TRUE, 0, Unset)
            /\ UNCHANGED store
       ELSE /\ store' = store \ Hits(id)
            /\ dres' = Answer("delete", 200, "", TRUE, 1, Unset)
    /\ UNCHANGED <<pvars, cvars, conv, svars, yvars>>

NextData ==
    \/ ListDatabases
    \/ ListCollections
    \/ FetchRoute
    \/ GetSchema
    \/ \E id \in IdParams : GetDocument(id)
    \/ \E body \in Bodies : CreateDocument(body)
    \/ \E id \in IdParams, body \in Bodies : UpdateDocument(id, body)
    \/ \E id \in IdParams : DeleteDocument(id)
    \/ \E segs \in GetPaths : Get(segs)

\* The documents the store may hold at the start: each with one text field.
StoredIds == {NumId(1), StrId(Hex(1)), OidId(1)}
InitStore ==
    store \in SUBSET {[id |-> i, body |-> Obj(<<"a">>, <<Str("x")>>)] : i \in StoredIds}

\* The manager with no handle, as the constructor or a disconnect leaves it,
\* or with the open handle a successful connect("A") has stored.
InitManager ==
    /\ req = [p \in Reqs |-> IdleReq]
    /\ \/ /\ client = 0
          /\ connectionString = NoConn
          /\ handles = [h \in Handles |-> NoHandle]
          /\ nh = 0
       \/ /\ client = 1
          /\ connectionString = "A"
          /\ handles = [h \in Handles |->
                           IF h = 1 THEN [str |-> "A", st |-> "open", raced |-> FALSE]
                           ELSE NoHandle]
          /\ nh = 1

\* ------------------------------------------------------------------------
\* src/src/utils/schema.js : inferSchema for one field, f
\* ------------------------------------------------------------------------

\* The value of f in a sampled document. Strings are numbered: 0 is a text
\* that looks like a date ("2024-01-01"), 1, 2, 3, ... are other texts. An
\* object is {} (v = 0) or { g: 1 } (v = 1).
FieldVal(k, v) == [k |-> k, v |-> v]
Absent == FieldVal("absent", 0)

\* isDateString(str)
isDateString(x) == x.k = "string" /\ x.v = 0

\* The positions of the sample whose value of f is of one of the kinds K.
OfKind(docs, K) == {i \in 1..Len(docs) : docs[i].k \in K}

\* analyzeDocument over the whole sample: the statistics of f, and whether
\* statistics of the nested path f.g were opened. A string that looks like a
\* date is pushed to stringValues and to dateValues.
analyzeDocument(docs) ==
    [seen               |-> \E i \in 1..Len(docs) : docs[i] # Absent,
     nullCount          |-> Cardinality(OfKind(docs, {"null"})),
     stringValues       |-> OfKind(docs, {"string"}),
     numberValues       |-> Cardinality(OfKind(docs, {"number"})),
     booleanValues      |-> Cardinality(OfKind(docs, {"boolean"})),
     dateValues         |-> Cardinality({i \in OfKind(docs, {"date", "string"}) :
                                           docs[i].k = "date" \/ isDateString(docs[i])}),
     arrayValues        |-> Cardinality(OfKind(docs, {"array"})),
     objectValues       |-> Cardinality(OfKind(docs, {"object"})),
     uniqueStringValues |-> {docs[i].v : i \in OfKind(docs, {"string"})},
     nested             |-> \E i \in OfKind(docs, {"object"}) : docs[i].v = 1]

\* The order of the keys of counts in determineType.
TypeOrder == <<"string", "number", "boolean", "date", "array", "object">>

Counts(stats) ==
    [string  |-> Cardinality(stats.stringValues),
     number  |-> stats.numberValues,
     boolean |-> stats.booleanValues,
     date    |-> stats.dateValues,
     array   |-> stats.arrayValues,
     object  |-> stats.objectValues]

\* The loop of determineType from key i on.
RECURSIVE Scan(_, _, _, _)
Scan(counts, i, maxCount, primaryType) ==
    IF i > Len(TypeOrder) THEN primaryType
    ELSE IF counts[TypeOrder[i]] > maxCount
         THEN Scan(counts, i + 1, counts[TypeOrder[i]], TypeOrder[i])
         ELSE Scan(counts, i + 1, maxCount, primaryType)

\* determineType(stats)
determineType(stats) == Scan(Counts(stats), 1, 0, "string")

\* enumUsage = stats.stringValues.filter(v => uniqueValues.includes(v)).length
EnumUsage(docs, stats) ==
    Cardinality({i \in stats.stringValues : docs[i].v \in stats.uniqueStringValues})

\* The enum detection of inferSchema.
IsEnum(docs, stats) ==
    /\ determineType(stats) = "string"
    /\ Cardinality(stats.uniqueStringValues) > 0
    /\ Cardinality(stats.uniqueStringValues) <= EnumMax
    /\ 10 * EnumUsage(docs, stats) > 8 * Cardinality(stats.stringValues)

\* (the schema of f is kept when the path f.g is entered)
KeepsParent(stats) == FALSE

\* The path f.g replaces the schema of f by { type: 'object', fields: {} }.
ReplacesParent(stats) == stats.nested

\* What inferSchema reports: isEmpty for an empty sample, no entry for a
\* field no sampled document has, and otherwise the type of f with its enum
\* values.
NoSchema == [isEmpty |-> FALSE, type |-> "unset", enum |-> {}]

inferSchema(docs) ==
    LET stats == analyzeDocument(docs)
    IN  IF Len(docs) = 0 THEN [isEmpty |-> TRUE, type |-> "none", enum |-> {}]
        ELSE IF ~stats.seen THEN [isEmpty |-> FALSE, type |-> "none", enum |-> {}]
        ELSE IF ReplacesParent(stats)
             THEN [isEmpty |-> FALSE, type |-> "object", enum |-> {}]
        ELSE IF IsEnum(docs, stats)
             THEN [isEmpty |-> FALSE, type |-> "enum",
                   enum |-> stats.uniqueStringValues]
        ELSE [isEmpty |-> FALSE, type |-> determineType(stats), enum |-> {}]

\* i copies of x.
Rep(x, i) == [j \in 1..i |-> x]

\* Samples of strings: some copies of each of three texts, and some texts
\* that each occur once.
StringSamples ==
    {Rep(FieldVal("string", 1), a) \o Rep(FieldVal("string", 2), b)
        \o Rep(FieldVal("string", 3), c)
        \o [j \in 1..d |-> FieldVal("string", 3 + j)] :
     a, b, c, d \in 0..MaxStrings}

\* Samples of every kind of value, the field absent included.
MixedVals ==
    {FieldVal("string", 0), FieldVal("string", 1), FieldVal("number", 0),
     FieldVal("boolean", 0), FieldVal("date", 0), FieldVal("array", 0),
     FieldVal("object", 0), FieldVal("object", 1), FieldVal("null", 0), Absent}

MixedSamples == UNION {[1..n -> MixedVals] : n \in 0..MaxMixed}

Samples == {x \in StringSamples : Len(x) <= MaxStrings} \cup MixedSamples

\* GET /:db/:collection/schema on a connected server: inferSchema(collection).
InferSchema ==
    /\ schema = NoSchema
    /\ schema' = inferSchema(sample)
    /\ UNCHANGED <<sample, pvars, cvars, conv, dvars, yvars>>

NextSchema == InferSchema

\* ------------------------------------------------------------------------
\* src/src/utils/schema.js : the fields tree of inferSchema
\* ------------------------------------------------------------------------

\* Field names, each as the list of the parts that '.' separates in it: the
\* names "a" and "b", and the name "a.b".
FieldNames == {<<"a">>, <<"b">>, <<"a", "b">>}

\* A document is the sequence of its fields other than _id, in key order. A
\* field holds a text (val) or a nested document (sub).
TextField(key) == [key |-> key, val |-> FieldVal("string", 1), sub |-> <<>>]
DocField(key, doc) ==
    [key |-> key, val |-> FieldVal("object", IF doc = <<>> THEN 0 ELSE 1),
     sub |-> doc]

\* The documents of at most one field, nested up to k levels deep.
RECURSIVE NestDocs(_)
NestDocs(k) ==
    {<<>>} \cup {<<TextField(n)>> : n \in FieldNames}
        \cup IF k = 0 THEN {}
             ELSE {<<DocField(n, d)>> : n \in FieldNames, d \in NestDocs(k - 1)}

TopFields ==
    {TextField(n) : n \in FieldNames}
        \cup {DocField(n, d) : n \in FieldNames, d \in NestDocs(MaxNest - 1)}

\* The sampled documents: at most two fields of different names each.
TopDocs ==
    {<<>>} \cup {<<e>> : e \in TopFields}
        \cup UNION {{<<e, f>> : f \in {x \in TopFields : x.key # e.key}} :
                       e \in TopFields}

\* The samples: no document, one document, or two documents of one field.
FieldSamples ==
    {<<>>} \cup {<<d>> : d \in TopDocs}
        \cup {<<<<e>>, <<f>>>> : e, f \in TopFields}

\* analyzeDocument(doc, fieldStats, prefix): the field paths visited, in the
\* order visited, each with the value found there. fieldPath is prefix + '.'
\* + key, which split('.') cuts into the parts of prefix and those of key.
RECURSIVE Visit(_, _)
Visit(doc, prefix) ==
    IF doc = <<>> THEN <<>>
    ELSE LET e == Head(doc)
             fieldPath == prefix \o e.key
         IN  <<[path |-> fieldPath, val |-> e.val]>>
                 \o (IF e.val.k = "object" THEN Visit(e.sub, fieldPath) ELSE <<>>)
                 \o Visit(Tail(doc), prefix)

\* sampleDocs.forEach(doc => analyzeDocument(doc, fieldStats, ''))
RECURSIVE VisitAll(_)
VisitAll(docs) ==
    IF docs = <<>> THEN <<>> ELSE Visit(Head(docs), <<>>) \o VisitAll(Tail(docs))

\* Object.keys(fieldStats): the paths in the order in which they were first
\* visited.
RECURSIVE FieldPaths(_, _)
FieldPaths(visits, seen) ==
    IF visits = <<>> THEN <<>>
    ELSE IF Head(visits).path \in seen THEN FieldPaths(Tail(visits), seen)
    ELSE <<Head(visits).path>>
             \o FieldPaths(Tail(visits), seen \cup {Head(visits).path})

\* The values that fieldStats[path] has counted.
RECURSIVE ValuesAt(_, _)
ValuesAt(visits, path) ==
    IF visits = <<>> THEN <<>>
    ELSE (IF Head(visits).path = path THEN <<Head(visits).val>> ELSE <<>>)
             \o ValuesAt(Tail(visits), path)

\* fieldSchema.type: determineType(stats), or enum.
FieldType(vals) ==
    LET stats == analyzeDocument(vals)
    IN  IF IsEnum(vals, stats) THEN "enum" ELSE determineType(stats)

\* The result tree is the set of its entries: the path of each, and whether
\* it is an object node { type: 'object', fields: {...} } or a fieldSchema.
Under(p, q) == Len(q) > Len(p) /\ SubSeq(q, 1, Len(p)) = p

\* current[part] = value: what was there, with all below it, is replaced.
Put(tree, p, node, type) ==
    {e \in tree : e.path # p /\ ~Under(p, e.path)}
        \cup {[path |-> p, node |-> node, type |-> type]}

\* The loop over pathParts[0 .. length - 2], from part i on: a part that is
\* missing, or that is no object node with fields, becomes an empty object
\* node.
RECURSIVE Descend(_, _, _)
Descend(tree, p, i) ==
    IF i >= Len(p) THEN tree
    ELSE IF \E e \in tree : e.path = SubSeq(p, 1, i) /\ e.node
         THEN Descend(tree, p, i + 1)
         ELSE Descend(Put(tree, SubSeq(p, 1, i), TRUE, "object"), p, i + 1)

\* current[pathParts[pathParts.length - 1]] = fieldSchema (for a path of one
\* part: schema[fieldPath] = fieldSchema).
Place(tree, p, type) == Put(Descend(tree, p, 1), p, FALSE, type)

\* Object.keys(fieldStats).forEach(...)
RECURSIVE Build(_, _, _)
Build(tree, paths, visits) ==
    IF paths = <<>> THEN tree
    ELSE Build(Place(tree, Head(paths), FieldType(ValuesAt(visits, Head(paths)))),
               Tail(paths), visits)

\* inferSchema(collection): { fields, isEmpty }.
inferFields(docs) ==
    IF Len(docs) = 0 THEN [isEmpty |-> TRUE, fields |-> {}]
    ELSE [isEmpty |-> FALSE,
          fields  |-> Build({}, FieldPaths(VisitAll(docs), {}), VisitAll(docs))]

NoFields == [isEmpty |-> FALSE, fields |-> {[path |-> <<>>, node |-> FALSE, type |-> "unset"]}]

\* GET /:db/:collection/schema on a connected server.
InferFields ==
    /\ inferred = NoFields
    /\ inferred' = inferFields(fsample)
    /\ UNCHANGED <<fsample, modal, pvars, cvars, conv, dvars, svars, bvars>>

\* The New Document dialog of src/public/js/app.js. res is how the schema
\* request ended: "ok", "error" (a response that is not ok) or "throw" (fetch
\* or res.json() threw).
ClosedModal ==
    [open |-> FALSE, useFormMode |-> FALSE, editor |-> FALSE, error |-> FALSE,
     res |-> "none"]

\* Object.keys(data.schema.fields || {})
TopKeys(data) == {e.path : e \in {x \in data.fields : Len(x.path) = 1}}

\* (the form is shown for every response that is ok)
UseFormAlways(res, data) == res = "ok"

\* res.ok && data.schema && !data.schema.isEmpty
\*        && Object.keys(data.schema.fields || {}).length > 0
UseFormMode(res, data) ==
    res = "ok" /\ ~data.isEmpty /\ Cardinality(TopKeys(data)) > 0

\* openDocModal(dbName, collectionName, null): the schema is requested; the
\* form is rendered from it, or the JSON editor is shown with an empty
\* document; the error line is hidden and the dialog is shown.
OpenDocModal(res) ==
    /\ ~modal.open
    /\ LET data == inferFields(fsample)
           form == UseFormMode(res, data)
       IN  /\ inferred' = IF res = "ok" THEN data ELSE inferred
           /\ modal' = [open |-> TRUE, useFormMode |-> form, editor |-> ~form,
                        error |-> FALSE, res |-> res]
    /\ UNCHANGED <<fsample, pvars, cvars, conv, dvars, svars, bvars>>

NextFields == InferFields \/ \E res \in {"ok", "error", "throw"} : OpenDocModal(res)

\* ------------------------------------------------------------------------
\* src/public/js/app.js : the browser page (initBrowser, loadDocuments)
\* ------------------------------------------------------------------------

\* The collection shown: BrowserDocs documents with ObjectId _id values.
BrowserColl ==
    {[id |-> OidId(n), createdAt |-> 1, name |-> <<"b">>] : n \in 1..BrowserDocs}

\* The cursors the server issues for it, and none.
BrowserCursors ==
    {NoString} \cup {Hex(n) : n \in {m \in 1..BrowserDocs : m % ClientLimit = 0}}

\* GET /:db/:collection?limit=50&cursor=...&search=...&arrayFilters=...: the
\* handler reads cursor and limit.
Served ==
    [c \in BrowserCursors |->
        Respond(BrowserColl, FilterNone, c, LimitInt(ClientLimit))]

\* The array filters: {} and { tags: { type: 'empty' } }.
NoArrayFilter == "none"
ArrayFilterTypes == {"empty"}

NoIssuer == [search |-> <<>>, arrayFilters |-> "unset"]

\* The request loadDocuments sends: the cursor it was called with, and the
\* search term and array filters as they are at the call (with what the
\* cursor was issued for).
Request(c, term, filters, for) ==
    [cursor |-> c, search |-> term, arrayFilters |-> filters, issuer |-> for]

\* loadDocuments(dbName, collectionName, cursor) up to await fetch(url).
LoadDocuments(c, term, filters, for) ==
    /\ loads < MaxLoads
    /\ loads' = loads + 1
    /\ allDocuments' = IF c = NoString THEN <<>> ELSE allDocuments
    /\ fetches' = Append(fetches, Request(c, term, filters, for))

\* currentCursor = null; allDocuments = []; loadDocuments(dbName, collectionName)
Reload(term, filters) ==
    /\ currentCursor' = NoString
    /\ issuer' = NoIssuer
    /\ LoadDocuments(NoString, term, filters, NoIssuer)

\* The input event of the search box: the term is stored and the debounce
\* timer is started again.
SearchInput(term) ==
    /\ term # currentSearchTerm
    /\ currentSearchTerm' = term
    /\ searchTimeout' = TRUE
    /\ UNCHANGED <<currentCursor, allDocuments, arrayFilters, loadMoreBtn,
                   fetches, issuer, loads>>
    /\ UNCHANGED <<pvars, cvars, conv, dvars, svars, tvars>>

\* The debounce timer expires, 300 ms after the last input event.
SearchDebounced ==
    /\ searchTimeout
    /\ searchTimeout' = FALSE
    /\ Reload(currentSearchTerm, arrayFilters)
    /\ UNCHANGED <<currentSearchTerm, arrayFilters, loadMoreBtn>>
    /\ UNCHANGED <<pvars, cvars, conv, dvars, svars, tvars>>

\* The Enter key in the search box: the timer is cleared.
SearchEnter ==
    /\ searchTimeout' = FALSE
    /\ Reload(currentSearchTerm, arrayFilters)
    /\ UNCHANGED <<currentSearchTerm, arrayFilters, loadMoreBtn>>
    /\ UNCHANGED <<pvars, cvars, conv, dvars, svars, tvars>>

\* The clear button of the search box, displayed while a term is typed.
ClearSearch ==
    /\ currentSearchTerm # <<>>
    /\ currentSearchTerm' = <<>>
    /\ Reload(<<>>, arrayFilters)
    /\ UNCHANGED <<arrayFilters, searchTimeout, loadMoreBtn>>
    /\ UNCHANGED <<pvars, cvars, conv, dvars, svars, tvars>>

\* The Refresh button.
Refresh ==
    /\ Reload(currentSearchTerm, arrayFilters)
    /\ UNCHANGED <<currentSearchTerm, arrayFilters, searchTimeout, loadMoreBtn>>
    /\ UNCHANGED <<pvars, cvars, conv, dvars, svars, tvars>>

\* The Load more button: loadDocuments(dbName, collectionName, currentCursor).
LoadMore ==
    /\ loadMoreBtn
    /\ LoadDocuments(currentCursor, currentSearchTerm, arrayFilters, issuer)
    /\ UNCHANGED <<currentCursor, issuer, currentSearchTerm, arrayFilters,
                   searchTimeout, loadMoreBtn>>
    /\ UNCHANGED <<pvars, cvars, conv, dvars, svars, tvars>>

\* applyArrayFilter(fieldName)
ApplyArrayFilter(type) ==
    /\ arrayFilters' = type
    /\ Reload(currentSearchTerm, type)
    /\ UNCHANGED <<currentSearchTerm, searchTimeout, loadMoreBtn>>
    /\ UNCHANGED <<pvars, cvars, conv, dvars, svars, tvars>>

\* clearArrayFilter(fieldName)
ClearArrayFilter ==
    /\ arrayFilters' = NoArrayFilter
    /\ Reload(currentSearchTerm, NoArrayFilter)
    /\ UNCHANGED <<currentSearchTerm, searchTimeout, loadMoreBtn>>
    /\ UNCHANGED <<pvars, cvars, conv, dvars, svars, tvars>>

Without(seq, i) == SubSeq(seq, 1, i - 1) \o SubSeq(seq, i + 1, Len(seq))

\* loadDocuments after await fetch(url) and await res.json(), for the i-th
\* request in flight: currentCursor = nextCursor; allDocuments =
\* allDocuments.concat(documents); the Load more button is displayed when
\* hasMore. A response that is not ok changes none of them.
FetchReturns(i, ok) ==
    /\ i \in 1..Len(fetches)
    /\ fetches' = Without(fetches, i)
    /\ IF ok
       THEN LET data == Served[fetches[i].cursor]
            IN  /\ currentCursor' = data.nextCursor
                /\ issuer' = [search |-> fetches[i].search,
                              arrayFilters |-> fetches[i].arrayFilters]
                /\ allDocuments' = allDocuments \o data.documents
                /\ loadMoreBtn' = data.hasMore
       ELSE UNCHANGED <<currentCursor, issuer, allDocuments, loadMoreBtn>>
    /\ UNCHANGED <<currentSearchTerm, arrayFilters, searchTimeout, loads>>
    /\ UNCHANGED <<pvars, cvars, conv, dvars, svars, tvars>>

NextBrowser ==
    \/ \E term \in SearchInputs : SearchInput(term)
    \/ SearchDebounced
    \/ SearchEnter
    \/ ClearSearch
    \/ Refresh
    \/ LoadMore
    \/ \E type \in ArrayFilterTypes : ApplyArrayFilter(type)
    \/ ClearArrayFilter
    \/ \E i \in 1..MaxLoads, ok \in BOOLEAN : FetchReturns(i, ok)

\* initBrowser(dbName, collectionName): the variables are reset and
\* loadDocuments is called.
InitBrowser ==
    /\ currentCursor = NoString
    /\ allDocuments = <<>>
    /\ currentSearchTerm = <<>>
    /\ arrayFilters = NoArrayFilter
    /\ searchTimeout = FALSE
    /\ loadMoreBtn = FALSE
    /\ fetches = <<[cursor |-> NoString, search |-> <<>>,
                    arrayFilters |-> NoArrayFilter, issuer |-> NoIssuer]>>
    /\ issuer = NoIssuer
    /\ loads = 1

\* ------------------------------------------------------------------------
\* Specifications
\* ------------------------------------------------------------------------

\* The manager before any request, as the constructor leaves it.
InitConn ==
    /\ client = 0
    /\ connectionString = NoConn
    /\ handles = [h \in Handles |-> NoHandle]
    /\ nh = 0
    /\ req = [p \in Reqs |-> IdleReq]

\* The pagination state while the connection manager is studied.
InitIdlePage ==
    /\ coll = {}
    /\ filter = FilterNone
    /\ search = <<>>
    /\ limit = LimitAbsent
    /\ InitSession

\* The other components while one is studied.
InitIdleData == store = {} /\ dres = NoAnswer

InitIdleSchema == sample = <<>> /\ schema = NoSchema

InitIdleFields == fsample = <<>> /\ inferred = NoFields /\ modal = ClosedModal

\* The browser page not opened.
InitIdleBrowser ==
    /\ currentCursor = NoString
    /\ allDocuments = <<>>
    /\ currentSearchTerm = <<>>
    /\ arrayFilters = NoArrayFilter
    /\ searchTimeout = FALSE
    /\ loadMoreBtn = FALSE
    /\ fetches = <<>>
    /\ issuer = NoIssuer
    /\ loads = 0

InitIdleLater == InitIdleFields /\ InitIdleBrowser

InitIdleRest == conv = IdleConv /\ InitIdleData /\ InitIdleSchema /\ InitIdleLater

InitPageSpec == InitPage /\ InitConn /\ overlap = FALSE /\ InitIdleRest

InitQuerySpec == InitQuery /\ InitConn /\ overlap = FALSE /\ InitIdleRest

\* Requests overlap: any request may arrive or continue at any time.
InitConnSpec == InitIdlePage /\ InitConn /\ overlap = TRUE /\ InitIdleRest

\* Requests do not overlap: one arrives only when no other is in flight.
InitSeqSpec == InitIdlePage /\ InitConn /\ overlap = FALSE /\ InitIdleRest

\* Conversions of values, the server idle.
InitBsonSpec ==
    /\ InitIdlePage /\ InitConn /\ overlap = FALSE
    /\ conv \in ConvInputs /\ InitIdleData /\ InitIdleSchema /\ InitIdleLater

\* The data routes, with and without a stored handle.
InitDataSpec ==
    /\ InitIdlePage /\ InitManager /\ overlap = FALSE
    /\ conv = IdleConv /\ InitStore /\ dres = NoAnswer /\ InitIdleSchema
    /\ InitIdleLater

\* Schema inference over every sample.
InitSchemaSpec ==
    /\ InitIdlePage /\ InitConn /\ overlap = FALSE
    /\ conv = IdleConv /\ InitIdleData
    /\ sample \in Samples /\ schema = NoSchema
    /\ InitIdleLater

\* The fields tree and the New Document dialog over every sample of documents.
InitFieldsSpec ==
    /\ InitIdlePage /\ InitConn /\ overlap = FALSE
    /\ conv = IdleConv /\ InitIdleData /\ InitIdleSchema
    /\ fsample \in FieldSamples /\ inferred = NoFields /\ modal = ClosedModal
    /\ InitIdleBrowser

\* The browser page opened on a connected server.
InitBrowserSpec ==
    /\ InitIdlePage /\ InitConn /\ overlap = FALSE
    /\ conv = IdleConv /\ InitIdleData /\ InitIdleSchema /\ InitIdleFields
    /\ InitBrowser

SpecPage == InitPageSpec /\ [][NextPage]_vars

SpecQuery == InitQuerySpec /\ [][NextPage]_vars

SpecConn == InitConnSpec /\ [][NextConn]_vars

SpecSeq == InitSeqSpec /\ [][NextConn]_vars

SpecBson == InitBsonSpec /\ [][NextBson]_vars

SpecData == InitDataSpec /\ [][NextData]_vars

SpecSchema == InitSchemaSpec /\ [][NextSchema]_vars

SpecFields == InitFieldsSpec /\ [][NextFields]_vars

SpecBrowser == InitBrowserSpec /\ [][NextBrowser]_vars

\* ------------------------------------------------------------------------
\* Properties of the paginated fetch
\* ------------------------------------------------------------------------

\* The documents the caller's filter selects.
Wanted == {d \in coll : Matches(d, ParseFilter(filter))}

GotSet == {got[i] : i \in 1..Len(got)}

\* A sequence followed to hasMore = false with a page size of at least 1.
Finished ==
    /\ phase = "done"
    /\ resp.status = 200
    /\ ~resp.hasMore
    /\ resp.pageLimit >= 1

\* C1: a pagination sequence followed until hasMore = false has returned
\* every matching document exactly once, whatever the type of the _id values.
C1_EveryDocumentOnce ==
    Finished => GotSet = Wanted /\ Len(got) = Cardinality(Wanted)

\* (createdAt, _id) of d sorts after that of e.
KeyAfter(d, e) ==
    \/ d.createdAt > e.createdAt
    \/ d.createdAt = e.createdAt /\ IdLess(e.id, d.id)

\* The document of the collection with the smallest _id.
FirstById == CHOOSE d \in coll : \A e \in coll : e = d \/ IdLess(d.id, e.id)

\* The two-document scenario: page size 1, two documents.
TwoDocs == Cardinality(coll) = 2 /\ limit = LimitInt(1)

C3_FilterOnEveryPage ==
    /\ \A i \in 1..Len(got) : Matches(got[i], ParseFilter(filter))
    /\ filter = FilterNone /\ Finished /\ pages = 1 => GotSet = coll

Lower(c) == CASE c = "A" -> "a" [] c = "B" -> "b" [] OTHER -> c

\* term occurs in text, ignoring case (a case-insensitive "contains").
ContainsCI(text, term) ==
    \E i \in 0..(Len(text) - Len(term)) :
        \A j \in 1..Len(term) : Lower(text[i + j]) = Lower(term[j])

\* C4: with a search term, every returned document contains the term in its
\* searchable field, ignoring case.
C4_SearchSelects ==
    search # <<>> => \A i \in 1..Len(got) : ContainsCI(got[i].name, search)

\* C10: whatever the limit parameter, the effective page size is between 1
\* and 100 and no response carries more documents than that.
C10_PageSizeBounded ==
    pages >= 1 =>
        /\ resp.pageLimit \in 1..MaxLimit
        /\ Len(resp.documents) <= resp.pageLimit

\* The documents returned before the last request of the sequence.
PrevGot == SubSeq(got, 1, Len(got) - Len(resp.documents))

\* The matching documents that remained after the cursor of the last request:
\* all of them on the first request, and afterwards those that sort after the
\* document the cursor was taken from.
Remaining ==
    IF pages <= 1 \/ Len(PrevGot) = 0 THEN Wanted
    ELSE {d \in Wanted : IdLess(PrevGot[Len(PrevGot)].id, d.id)}

MinOf(a, b) == IF a < b THEN a ELSE b

\* C11: hasMore is true exactly when more than pageSize matching documents
\* remained after the cursor, the response carries min(pageSize, remaining)
\* documents, and they are the first of the remaining ones: the probe row is
\* never part of the response.
C11_ProbeRow ==
    pages >= 1 /\ resp.status = 200 =>
        /\ resp.hasMore <=> Cardinality(Remaining) > resp.pageLimit
        /\ Len(resp.documents) = MinOf(resp.pageLimit, Cardinality(Remaining))
        /\ resp.documents =
               SubSeq(SortAsc(Remaining), 1, Len(resp.documents))

\* C12: nextCursor is present exactly when hasMore is true, and it is then
\* the string form of the _id of the last returned document.
C12_CursorIffHasMore ==
    pages >= 1 /\ resp.status = 200 =>
        /\ resp.nextCursor # NoString <=> resp.hasMore
        /\ resp.hasMore =>
               /\ Len(resp.documents) > 0
               /\ resp.nextCursor =
                      IdToString(resp.documents[Len(resp.documents)].id)

\* ------------------------------------------------------------------------
\* Properties of the connection manager
\* ------------------------------------------------------------------------

Answered(p) == req[p].pc = "done"

\* A connect(s) that began with a handle stored under the same string s.
SameStringConnect(p) ==
    /\ req[p].op = "connect"
    /\ req[p].atClient # 0
    /\ req[p].atString = req[p].arg

\* C5: a connect(s) that finds a handle stored with the same string returns
\* that very handle, creates no client and closes nothing; the stored handle
\* and string stay as they were.
C5_SameStringReuses ==
    \A p \in Reqs :
        SameStringConnect(p) =>
            /\ req[p].pc \in {"c_list", "done"}
            /\ req[p].ret = req[p].atClient
            /\ req[p].created = {}
            /\ req[p].closed = {}
            /\ client = req[p].atClient
            /\ connectionString = req[p].atString

\* A second connect with the same string has been answered with success.
C5_Witness ==
    \E p \in Reqs :
        SameStringConnect(p) /\ Answered(p) /\ req[p].res = "200"

\* A connect that began with a handle stored and created a new one.
ReplacingConnect(p) ==
    /\ req[p].op = "connect"
    /\ req[p].atClient # 0
    /\ req[p].created # {}

\* C6: where requests do not overlap, at most one handle is open (created and
\* not yet closed), it is the stored one, and a connect that replaces the
\* stored handle has closed it before it creates the new one.
C6_OneOpenHandle ==
    /\ Cardinality(OpenHandles) <= 1
    /\ OpenHandles = IF client = 0 THEN {} ELSE {client}
    /\ \A p \in Reqs :
           ReplacingConnect(p) =>
               /\ req[p].atClient \in req[p].closed
               /\ handles[req[p].atClient].st = "closed"
               /\ \A h \in req[p].created : h > req[p].atClient

\* A connect with another string has replaced an open handle.
C6_Witness ==
    \E p \in Reqs :
        /\ ReplacingConnect(p)
        /\ req[p].atString \in GoodStrings
        /\ req[p].atString # req[p].arg
        /\ Answered(p)
        /\ req[p].res = "200"

\* C7: overlapping connect requests replace the handle as in a critical
\* section: once both are answered, no handle is left open that the manager
\* does not store, and the stored handle was opened with the stored string
\* (stated for the runs in which no handle was closed while it was still
\* connecting).
C7_CriticalSection ==
    /\ \A p \in Reqs : Answered(p) /\ req[p].op = "connect"
    /\ \A h \in Handles : ~handles[h].raced
    =>
        /\ OpenHandles \subseteq {client}
        /\ client # 0 /\ connectionString # NoConn =>
               handles[client].str = connectionString

\* A status request (GET /status or GET /) that found a handle stored.
ProbingStatus(p) ==
    /\ req[p].op \in {"status", "home"}
    /\ req[p].atClient # 0

\* C8: where requests do not overlap, a status request whose ping fails has
\* closed the probed handle and cleared handle and string before it answers
\* connected: false; after every such answer getClient() returns null.
C8_StaleHandleCleared ==
    \A p \in Reqs :
        /\ req[p].op \in {"status", "home"} /\ req[p].res = "disconnected" =>
               client = 0 /\ connectionString = NoConn
        /\ ProbingStatus(p) /\ req[p].pc \in {"s_respond", "done"}
                            /\ req[p].res # "connected" =>
               /\ req[p].closed = {req[p].atClient}
               /\ handles[req[p].atClient].st = "closed"
               /\ client = 0
               /\ connectionString = NoConn

\* A GET /status has answered connected: false after the ping of the stored
\* handle failed, and the handle is closed.
C8_Witness ==
    \E p \in Reqs :
        /\ ProbingStatus(p)
        /\ req[p].op = "status"
        /\ Answered(p)
        /\ req[p].res = "disconnected"
        /\ handles[req[p].atClient].st = "closed"

\* C9: where requests do not overlap, an answered disconnect has closed the
\* stored handle, if there was one, and left handle and string cleared; with
\* no handle stored it has closed nothing, raised no error and left the
\* manager as it was.
C9_DisconnectIdempotent ==
    \A p \in Reqs :
        req[p].op = "disconnect" /\ Answered(p) =>
            /\ req[p].res = "200"
            /\ client = 0
            /\ connectionString = NoConn
            /\ req[p].atClient # 0 =>
                   /\ req[p].closed = {req[p].atClient}
                   /\ handles[req[p].atClient].st = "closed"
            /\ req[p].atClient = 0 =>
                   /\ req[p].closed = {}
                   /\ connectionString = req[p].atString

\* A disconnect was answered that found no handle, after a handle had been
\* created and closed (a disconnect after a disconnect).
C9_Witness ==
    \E p \in Reqs :
        /\ req[p].op = "disconnect"
        /\ Answered(p)
        /\ req[p].atClient = 0
        /\ nh > 0
        /\ \A h \in 1..nh : handles[h].st = "closed"

\* A connect(s) call that failed: new MongoClient threw on the string, or
\* the handle's connect() failed.
ConnectFailed(p) ==
    /\ req[p].op = "connect"
    /\ Answered(p)
    /\ req[p].res = "400"
    /\ req[p].arg # ""
    /\ req[p].ret = 0

\* C23: where requests do not overlap, after a connect(s) call that failed
\* the manager holds no handle and no string, so that the data routes answer
\* 400 "Not connected".
C23_FailedConnectNoHandle ==
    \A p \in Reqs :
        ConnectFailed(p) => NotConnected /\ connectionString = NoConn

\* C24: in every state, with requests overlapping, a stored string comes with
\* a stored handle that was opened with that string, and every handle created
\* and not closed is the stored one.
C24_StringMatchesHandle ==
    /\ connectionString # NoConn =>
           client # 0 /\ handles[client].str = connectionString
    /\ OpenHandles \subseteq (IF client = 0 THEN {} ELSE {client})

\* C25: with requests overlapping, a status request whose ping failed closes
\* no handle but the one it probed.
C25_ClosesProbedOnly ==
    \A p \in Reqs :
        ProbingStatus(p) =>
            /\ req[p].closed \subseteq {req[p].atClient}
            /\ req[p].pc = "s_closing" => req[p].h = req[p].atClient

\* ------------------------------------------------------------------------
\* Properties of the value conversion
\* ------------------------------------------------------------------------

\* C13: parsing the serialized form of a native value, alone or nested in
\* arrays and documents, gives the value back.
C13_ParseSerialize ==
    conv.dir = "sp" /\ conv.pc = "done" => conv.out = conv.input

WellFormed == conv.form \in {"canonical", "other"}

\* C14 as stated: serializing the parsed form of a well-formed tagged
\* transport value, alone or nested, gives the value back.
C14_SerializeParse ==
    conv.dir = "ps" /\ conv.pc = "done" /\ WellFormed => conv.out = conv.input

\* The native type a tag is decoded to.
DecodedType(tag) ==
    CASE tag = "$oid" -> "ObjectId" [] tag = "$date" -> "Date"
      [] tag = "$numberDecimal" -> "Decimal128" [] tag = "$numberLong" -> "Long"
      [] OTHER -> "object"

\* C14 as the code has it: for a well-formed tagged transport value y, alone
\* or nested, serialize(parse(y)) does not throw and parses to the same
\* native value as y; it is y itself when the text of y is in the form
\* serialize writes. $oid, $date, $numberDecimal and $numberLong are decoded
\* to their native types; $binary and $timestamp stay plain documents.
C14_CanonicalForm ==
    conv.dir = "ps" /\ conv.pc = "done" /\ WellFormed =>
        /\ conv.out # Throw
        /\ parseDocument(conv.out) = conv.mid
        /\ conv.form = "canonical" => conv.out = conv.input
        /\ Len(conv.input.keys) = 1 =>
               conv.mid.t = DecodedType(conv.input.keys[1])

\* A nested $oid written in upper case came back in lower case.
C14_Witness ==
    /\ conv.dir = "ps" /\ conv.pc = "done" /\ conv.form = "other"
    /\ conv.input.t = "array"
    /\ conv.input.c[1] = Tagged("$oid", HexUp[1])
    /\ conv.out = Arr(<<Tagged("$oid", HexLow[1])>>)

\* The tag of an extended type.
TagOf(t) ==
    CASE t = "ObjectId" -> "$oid" [] t = "Date" -> "$date"
      [] t = "Binary" -> "$binary" [] t = "Decimal128" -> "$numberDecimal"
      [] t = "Long" -> "$numberLong" [] t = "Timestamp" -> "$timestamp"

ExtendedTypes ==
    {"ObjectId", "Date", "Binary", "Decimal128", "Long", "Timestamp"}

\* y represents v on the transport: a single-key tagged object where v is of
\* an extended type, element by element where v is an array or a document,
\* and v itself otherwise.
RECURSIVE SingleKeyForm(_, _)
SingleKeyForm(v, y) ==
    CASE v.t \in ExtendedTypes ->
             y.t = "object" /\ y.keys = <<TagOf(v.t)>>
      [] v.t \in {"array", "object"} ->
             /\ y.t = v.t /\ y.keys = v.keys /\ Len(y.c) = Len(v.c)
             /\ \A i \in 1..Len(v.c) : SingleKeyForm(v.c[i], y.c[i])
      [] OTHER -> y = v

\* C15: every value of an extended type is serialized to an object with
\* exactly one key, its tag; an ObjectId to { $oid: its 24 hexadecimal
\* characters }.
C15_SingleKeyTags ==
    conv.dir = "sp" /\ conv.pc \in {"half", "done"} /\ conv.mid # Throw =>
        /\ SingleKeyForm(conv.input, conv.mid)
        /\ conv.input.t = "ObjectId" =>
               conv.mid = Tagged("$oid", HexLow[conv.input.n])

\* ------------------------------------------------------------------------
\* Properties of the data routes
\* ------------------------------------------------------------------------

\* The last request changed the store.
Wrote == store # dres.before

\* C16: a create or update whose body carries a malformed tag value is
\* answered with a 4xx status and writes nothing to the store.
C16_MalformedRejected ==
    client # 0 /\ dres.route \in {"create", "update"} /\ dres.body \in BadBodies =>
        /\ dres.status \in 400..499
        /\ ~Wrote

\* An update or delete by a handler with a handle, whose id matched no
\* document.
MissingId ==
    client # 0 /\ dres.route \in {"update", "delete"} /\ dres.hit = 0

C18_NotConnected ==
    client = 0 /\ dres.route # "none" =>
        /\ dres.status = 400
        /\ dres.error = "Not connected"
        /\ ~dres.accessed
        /\ ~Wrote

\* A create was refused with 400 because no handle is stored.
C18_Witness ==
    /\ client = 0
    /\ dres.route = "create"
    /\ dres.body \in GoodBodies
    /\ dres.status = 400

\* ------------------------------------------------------------------------
\* Properties of the schema inference
\* ------------------------------------------------------------------------

\* inferSchema has reported a type for f.
Reported == schema # NoSchema /\ ~schema.isEmpty /\ schema.type # "none"

SampleCounts == Counts(analyzeDocument(sample))

\* The positions of the string values of the sample.
StringPositions == {i \in 1..Len(sample) : sample[i].k = "string"}

\* The bucket with the highest count, the earliest one in the fixed order
\* among those that tie.
Best ==
    TypeOrder[CHOOSE i \in 1..Len(TypeOrder) :
                  /\ \A j \in 1..Len(TypeOrder) :
                         SampleCounts[TypeOrder[j]] <= SampleCounts[TypeOrder[i]]
                  /\ \A j \in 1..(i - 1) :
                         SampleCounts[TypeOrder[j]] < SampleCounts[TypeOrder[i]]]

\* The type a reported type was resolved from: enum is a reclassified string.
Resolved(type) == IF type = "enum" THEN "string" ELSE type

HasNested == \E i \in 1..Len(sample) : sample[i] = FieldVal("object", 1)

DrawnFrom(S) == Cardinality({i \in StringPositions : sample[i].v \in S})

\* Ten sampled strings, each of three texts among them, n of the ten drawn
\* from those three.
TenWith(n) ==
    /\ Len(sample) = 10
    /\ Cardinality(StringPositions) = 10
    /\ \A v \in {1, 2, 3} : DrawnFrom({v}) > 0
    /\ DrawnFrom({1, 2, 3}) = n

\* C20: a field of strings is reported as enum only with at most 10 unique
\* values; with 9 of 10 values from a 3-element set it is an enum of exactly
\* those 3 values, with only 5 of 10 from a 3-element set it stays string.
C20_EnumThreshold ==
    Reported =>
        /\ schema.type = "enum" =>
               Cardinality(schema.enum) \in 1..EnumMax
        /\ TenWith(9) => schema.type = "enum" /\ schema.enum = {1, 2, 3}
        /\ TenWith(5) => schema.type = "string"

\* The sample holds a value that is neither null nor absent, and every such
\* value is a text that looks like a date.
AllDateStrings ==
    /\ \E i \in 1..Len(sample) : isDateString(sample[i])
    /\ \A i \in 1..Len(sample) :
           sample[i].k \notin {"null", "absent"} => isDateString(sample[i])

\* C30: a field whose sampled non-null values are all date-like strings is
\* reported with type date (and hence with format datetime-local, which the
\* code sets exactly for type date), as a field of native dates is.
C30_DateStringsAreDates ==
    Reported /\ AllDateStrings => schema.type = "date"

\* ------------------------------------------------------------------------
\* Properties of the fields tree and of the New Document dialog
\* ------------------------------------------------------------------------

Inferred == inferred # NoFields

\* The paths analyzeDocument recorded for the sample.
AnalysedPaths == {v.path : v \in {VisitAll(fsample)[i] : i \in 1..Len(VisitAll(fsample))}}

\* The entries of the result form a tree: one entry for a path, every entry
\* below the top under an object node, and nothing under a leaf.
IsTree(tree) ==
    /\ \A e, f \in tree : e.path = f.path => e = f
    /\ \A e \in tree :
           /\ Len(e.path) >= 1
           /\ \A i \in 1..(Len(e.path) - 1) :
                  \E f \in tree : f.path = SubSeq(e.path, 1, i) /\ f.node
           /\ ~e.node => \A f \in tree : ~Under(e.path, f.path)

\* C21: the fields result is a tree; every analysed path is in it at the place
\* its parts name, as an object node where deeper paths were analysed under it
\* (whatever it was classified as before) and as a leaf otherwise.
C21_FieldsTree ==
    Inferred =>
        /\ IsTree(inferred.fields)
        /\ \A p \in AnalysedPaths :
               \E e \in inferred.fields :
                   /\ e.path = p
                   /\ e.node <=> \E q \in AnalysedPaths : Under(p, q)

\* C22: inferSchema reports isEmpty, with no fields, exactly when the sample
\* holds no document; the New Document dialog then shows the JSON editor and
\* no error, as it does when the schema has no fields and when the schema
\* request fails.
C22_EmptyFallsBack ==
    /\ Inferred =>
           /\ inferred.isEmpty <=> Len(fsample) = 0
           /\ inferred.isEmpty => inferred.fields = {}
    /\ modal.open =>
           /\ ~modal.error
           /\ modal.editor <=> ~modal.useFormMode
           /\ \/ modal.res # "ok"
              \/ Len(fsample) = 0
              \/ inferred.fields = {}
              => modal.editor

\* The dialog was opened on an empty collection and shows the JSON editor.
C22_Witness ==
    /\ modal.open
    /\ modal.res = "ok"
    /\ Len(fsample) = 0
    /\ inferred.isEmpty
    /\ modal.editor

\* ------------------------------------------------------------------------
\* Properties of the browser page
\* ------------------------------------------------------------------------

\* C26: every request in flight that carries a cursor carries the search term
\* and the array filters of the request whose response issued that cursor.
C26_CursorWithItsQuery ==
    \A i \in 1..Len(fetches) :
        fetches[i].cursor # NoString =>
            /\ fetches[i].search = fetches[i].issuer.search
            /\ fetches[i].arrayFilters = fetches[i].issuer.arrayFilters

\* The first k pages of the collection, one after the other.
RECURSIVE PagesFrom(_, _)
PagesFrom(c, k) ==
    IF k = 0 THEN <<>>
    ELSE Served[c].documents
             \o (IF Served[c].hasMore THEN PagesFrom(Served[c].nextCursor, k - 1)
                 ELSE <<>>)

\* C27: allDocuments holds no document twice and is the first pages of the
\* collection, one after the other.
C27_ConsecutivePages ==
    /\ \A i, j \in 1..Len(allDocuments) :
           i # j => allDocuments[i].id # allDocuments[j].id
    /\ \E k \in 0..Cardinality(BrowserCursors) :
           allDocuments = PagesFrom(NoString, k)

\* ------------------------------------------------------------------------
\* Properties of reading by id and of route dispatch
\* ------------------------------------------------------------------------

\* The id the client puts in the path for a document: doc._id.$oid for an
\* ObjectId, and otherwise doc._id as the template literal writes it.
DocId(id) ==
    CASE id.t = "oid" -> Hex(id.n)
      [] id.t = "str" -> StrOf(id)
      [] id.t = "num" -> Dec(id.n)

\* C28: a GET by id with the id the client uses for a stored document
\* returns that document, whatever the type of its _id.
C28_ReadBackById ==
    client # 0 /\ dres.route = "get" /\ dres.path = <<>> =>
        \A d \in store :
            DocId(d.id) = dres.id => dres.status = 200 /\ dres.found = {d}

\* C29: a GET of /{db}/{c} is answered by the paginated listing and a GET of
\* /{db}/{c}/{id} by the document route with that id, for every name c and
\* every id.
C29_DispatchByShape ==
    dres.path # <<>> =>
        /\ Len(dres.path) = 2 => dres.route = "fetch"
        /\ Len(dres.path) = 3 =>
               /\ dres.route = "get"
               /\ client # 0 => dres.id = dres.path[3]

====
